---- MODULE Spec2Model ----
(***************************************************************************)
(* Model of cluster_tests/testlib/testlib.py: the testset runner           *)
(* (run_testset, safe_test_function_call, apply_with_seed), the output     *)
(* interceptor (no_output, call_reported), the cluster reconciler          *)
(* (try_reuse_cluster, get_appropriate_cluster) and poll_for_condition.    *)
(*                                                                         *)
(* Bodies of setup/test/test_teardown/teardown are environment input: each *)
(* invocation prints some text, draws some random numbers and either       *)
(* returns or raises an instance of Exception (what the handlers at        *)
(* lines 163, 428 and 467 name).  Cluster nodes are assumed to answer the  *)
(* log_at_all_nodes requests of lines 93 and 113.                          *)
(***************************************************************************)
EXTENDS Integers, Sequences, FiniteSets, TLC

VARIABLES
    config,              \* the module-level config dict (verbose, dry_run)
    rng,                 \* state of the process-wide random generator
    \* ---- run_testset ----
    pc,                  \* position inside run_testset
    test_name_list,      \* testset['test_name_list']
    intercept_output,    \* parameter of run_testset
    seed,                \* parameter of run_testset
    executed, errors, not_ran, err,     \* locals of run_testset
    it,                  \* position of the for-loop iterator (line 111)
    test_seed, test_teardown_seed, teardown_seed,
    calls,               \* body invocations made so far, in order
    pending,             \* exception on its way out of run_testset, or "none"
    ret,                 \* value returned by run_testset (None before)
    \* ---- one call of apply_with_seed or no_output ----
    op,                  \* the function called ("none" before the call)
    arg,                 \* its arguments and the behaviour of its body
    res,                 \* what it returned, raised and wrote
    \* ---- get_appropriate_cluster ----
    gpc,                 \* position inside get_appropriate_cluster
    cluster,             \* the driver's cluster: None or <<cluster object>>
    arg_cluster,         \* the cluster argument as it was on entry
    requirements,        \* the requirement set of the current call
    reuse_clusters,      \* parameter of get_appropriate_cluster
    satisfiable,         \* answer of is_satisfiable: None, <<TRUE>>, <<FALSE>>
    unsatisfied,         \* requirements still to be passed to make_met
    cluster_index,       \* local of get_appropriate_cluster
    events,              \* external calls made by the current call, in order
    hooks,               \* number of kill_nodes registrations held by atexit
    gres,                \* how the last call ended
    ncalls,              \* calls of get_appropriate_cluster made so far
    teardowns,           \* cluster teardowns performed so far
    \* ---- poll_for_condition ----
    ppc,                 \* position inside poll_for_condition
    attempts,            \* parameter: None or <<n>>
    timeout,             \* parameter: None or <<t>>
    sleep_time,          \* parameter
    true_at,             \* fun() is true from this evaluation on (0: never)
    elapsed,             \* time.time() - start_time
    attempt_count,       \* local of poll_for_condition
    evals                \* evaluations of fun() made so far

run_vars == <<pc, test_name_list, intercept_output, seed, executed,
              errors, not_ran, err, it, test_seed, test_teardown_seed,
              teardown_seed, calls, pending, ret>>
call_vars == <<op, arg, res>>
cluster_vars == <<gpc, cluster, arg_cluster, requirements, reuse_clusters,
                  satisfiable, unsatisfied, cluster_index, events, hooks, gres,
                  ncalls, teardowns>>
poll_vars == <<ppc, attempts, timeout, sleep_time, true_at, elapsed,
               attempt_count, evals>>
vars == <<config, rng, run_vars, call_vars, cluster_vars, poll_vars>>

(* ------------------------------ bounds -------------------------------- *)
MaxTests  == 3      \* longest test_name_list explored
MaxAttempts == 2    \* largest attempts argument of poll_for_condition
MaxTimeout == 3     \* largest timeout argument, in clock ticks
MaxSleep  == 2      \* largest sleep_time argument, in clock ticks
MaxLag    == 1      \* longest a sleep lasts beyond sleep_time
RngStates == 5      \* number of distinct generator states
MaxSeed   == 1      \* integer seeds 0..MaxSeed
MaxDraws  == 1      \* random draws one body makes
MaxOut    == 2      \* characters one body prints
NumReqs   == 2      \* requirements that exist
MaxCalls  == 3      \* calls of get_appropriate_cluster in one run

(* ------------------------------ values -------------------------------- *)
None == <<>>
NoSeed == <<"none", 0>>
IntSeed(v) == <<"int", v>>
BytesSeed(v) == <<"bytes", v>>
Seeds == {NoSeed} \cup {IntSeed(v) : v \in 0..MaxSeed}
Exceptions == {"ValueError", "AssertionError"}
Outcomes == {"none"} \cup Exceptions
Chars == {"A", "\n"}
Outputs == UNION {[1..k -> Chars] : k \in 0..MaxOut}
Behaviours == [exc : Outcomes, prints : Outputs, draws : 0..MaxDraws]
\* bodies as run_testset sees them: one kind of failure is enough there
RunBehaviours == [exc : {"none", "ValueError"}, prints : {<<>>, <<"A">>},
                  draws : 0..MaxDraws]
Configs == [verbose : BOOLEAN, dry_run : BOOLEAN]

FnSetup == <<"setup", 0>>
FnTest(t) == <<"test", t>>
FnTestTeardown == <<"test_teardown", 0>>
FnTeardown == <<"teardown", 0>>
FnNone == <<"", 0>>

(* ----------------------- the random generator ------------------------- *)
\* random.seed(a): None seeds from system entropy, an int or a bytes value
\* determines the state.
random_seed(a, entropy) ==
    IF a[1] = "none" THEN entropy
    ELSE IF a[1] = "int" THEN a[2] % RngStates
    ELSE (a[2] + 1) % RngStates

\* one draw advances the generator
random_step(s) == (s + RngStates - 1) % RngStates

RECURSIVE random_draws(_, _)
random_draws(s, k) == IF k = 0 THEN s ELSE random_draws(random_step(s), k - 1)

\* random.randbytes(16) in generator state s
random_randbytes(s) == BytesSeed(s)

(* --------------------------- apply_with_seed -------------------------- *)
\* Variant: the state is restored after the call, not in a finally, so a
\* raising method leaves the generator where it was.
apply_with_seed_restore_on_return(rng0, sd, entropy, draws, exc) ==
    LET seeded == random_seed(sd, entropy)
        after  == random_draws(seeded, draws)
    IN  [seen |-> seeded, value |-> random_randbytes(seeded), exc |-> exc,
         during |-> after, rng |-> IF exc = "none" THEN rng0 ELSE after]

\* Variant: the generator is not seeded, the method runs in the state the
\* caller left.
apply_with_seed_unseeded(rng0, sd, entropy, draws, exc) ==
    LET after == random_draws(rng0, draws)
    IN  [seen |-> rng0, value |-> random_randbytes(rng0), exc |-> exc,
         during |-> after, rng |-> rng0]

\* Variant: the generator is seeded only when a seed is given.
apply_with_seed_skip_none(rng0, sd, entropy, draws, exc) ==
    LET seeded == IF sd = NoSeed THEN rng0 ELSE random_seed(sd, entropy)
        after  == random_draws(seeded, draws)
    IN  [seen |-> seeded, value |-> random_randbytes(seeded), exc |-> exc,
         during |-> after, rng |-> rng0]

\* apply_with_seed(obj, func, args, seed) called in generator state rng0; the
\* method makes `draws` draws and ends with `exc`.
apply_with_seed(rng0, sd, entropy, draws, exc) ==
    LET rand_state == rng0
        seeded == random_seed(sd, entropy)
        after  == random_draws(seeded, draws)
    IN  [seen |-> seeded, value |-> random_randbytes(seeded), exc |-> exc,
         during |-> after, rng |-> rand_state]

(* ----------------------- call_reported, no_output --------------------- *)
Tok(kind, name, e, text) == [t |-> kind, name |-> name, e |-> e, text |-> text]
TextToks(s) == [i \in 1..Len(s) |-> Tok("text", FnNone, "", s[i])]

nullcontext == [kind |-> "nullcontext", name |-> FnNone, verbose |-> FALSE,
                res_on_same_line |-> TRUE]
call_reported(name, verbose, res_on_same_line) ==
    [kind |-> "call_reported", name |-> name, verbose |-> verbose,
     res_on_same_line |-> res_on_same_line]

\* what a context prints on entry, on normal exit and on exit by exception e
context_enter(c) ==
    IF c.kind = "call_reported" /\ c.verbose
    THEN <<Tok("start", c.name, "", IF c.res_on_same_line THEN "" ELSE "\n")>>
    ELSE <<>>
context_exit_ok(c) ==
    IF c.kind = "call_reported" /\ c.verbose
    THEN <<Tok("ok", FnNone, "", "")>>
    ELSE <<>>
context_exit_exc(c, e) ==
    IF c.kind # "call_reported" THEN <<>>
    ELSE IF c.verbose
         THEN <<Tok("failed", FnNone, "", ""), Tok("short", FnNone, e, "")>>
         ELSE <<Tok("failed_line", c.name, e, "")>>

banner(name, output) ==
    <<Tok("begin", name, "", "")>> \o TextToks(output)
      \o (IF output[Len(output)] # "\n" THEN TextToks(<<"\n">>) ELSE <<>>)
      \o <<Tok("end", name, "", "")>>

\* Variant: the captured output is printed in a finally, on every exit.
no_output_print_always(name, verbose, extra_context, cfg, body) ==
    LET v == IF verbose = None THEN cfg.verbose ELSE verbose[1]
        raised == body.exc # "none"
    IN  IF v
        THEN [out |-> context_enter(extra_context) \o TextToks(body.prints)
                       \o (IF raised THEN context_exit_exc(extra_context, body.exc)
                                     ELSE context_exit_ok(extra_context)),
              exc |-> body.exc,
              before |-> context_enter(extra_context), captured |-> <<>>]
        ELSE [out |-> context_enter(extra_context)
                       \o (IF raised THEN context_exit_exc(extra_context, body.exc)
                                     ELSE context_exit_ok(extra_context))
                       \o (IF Len(body.prints) > 0 THEN banner(name, body.prints)
                                                   ELSE <<>>),
              exc |-> body.exc,
              before |-> context_enter(extra_context),
              captured |-> TextToks(body.prints)]

\* Variant: the extra context is entered inside the redirection, so what it
\* prints is captured with the output of the body.
no_output_context_inside(name, verbose, extra_context, cfg, body) ==
    LET v == IF verbose = None THEN cfg.verbose ELSE verbose[1]
        raised == body.exc # "none"
        buf == context_enter(extra_context) \o TextToks(body.prints)
                 \o (IF raised THEN context_exit_exc(extra_context, body.exc)
                               ELSE context_exit_ok(extra_context))
    IN  IF v
        THEN [out |-> buf, exc |-> body.exc,
              before |-> context_enter(extra_context), captured |-> <<>>]
        ELSE [out |-> IF raised /\ Len(buf) > 0
                      THEN <<Tok("begin", name, "", "")>> \o buf
                             \o <<Tok("end", name, "", "")>>
                      ELSE <<>>,
              exc |-> body.exc, before |-> <<>>, captured |-> buf]

\* no_output(name, verbose, extra_context) around a body that prints
\* body.prints and ends with body.exc; verbose is None, <<TRUE>> or <<FALSE>>.
\* The result is what reached the real output (out), the exception leaving,
\* what was on the real output when the body started (before) and what the
\* StringIO held when the body ended (captured).
no_output(name, verbose, extra_context, cfg, body) ==
    LET v == IF verbose = None THEN cfg.verbose ELSE verbose[1]
        raised == body.exc # "none"
    IN  IF v
        THEN [out |-> context_enter(extra_context) \o TextToks(body.prints)
                       \o (IF raised THEN context_exit_exc(extra_context, body.exc)
                                     ELSE context_exit_ok(extra_context)),
              exc |-> body.exc,
              before |-> context_enter(extra_context), captured |-> <<>>]
        ELSE IF ~raised
        THEN [out |-> context_enter(extra_context) \o context_exit_ok(extra_context),
              exc |-> "none",
              before |-> context_enter(extra_context),
              captured |-> TextToks(body.prints)]
        ELSE [out |-> context_enter(extra_context)
                       \o context_exit_exc(extra_context, body.exc)
                       \o (IF Len(body.prints) > 0 THEN banner(name, body.prints)
                                                   ELSE <<>>),
              exc |-> body.exc,
              before |-> context_enter(extra_context),
              captured |-> TextToks(body.prints)]

(* ----------------------- safe_test_function_call ---------------------- *)
\* Variant: no except clause, the exception leaves the function.
safe_test_function_call_no_except(testfunction, verbose, intercept, sd, dry_run, cfg, rng0, entropy, b) ==
    LET dry == IF dry_run = None THEN cfg.dry_run ELSE dry_run[1]
        a == apply_with_seed(rng0, sd, entropy, b.draws, b.exc)
        body == IF dry THEN [prints |-> <<>>, exc |-> "none"]
                       ELSE [prints |-> b.prints, exc |-> a.exc]
        r == no_output(testfunction, <<~intercept>>,
                       call_reported(testfunction, verbose, intercept), cfg, body)
    IN  [error |-> None, raised |-> r.exc, out |-> r.out,
         res |-> IF dry \/ a.exc # "none" THEN None ELSE <<"result">>,
         before |-> r.before, captured |-> r.captured,
         rng |-> IF dry THEN rng0 ELSE a.rng, invoked |-> ~dry,
         body_exc |-> body.exc, seen |-> IF dry THEN -1 ELSE a.seen]

\* Variant: the body is invoked in a dry run too.
safe_test_function_call_always_run(testfunction, verbose, intercept, sd, dry_run, cfg, rng0, entropy, b) ==
    LET a == apply_with_seed(rng0, sd, entropy, b.draws, b.exc)
        body == [prints |-> b.prints, exc |-> a.exc]
        r == no_output(testfunction, <<~intercept>>,
                       call_reported(testfunction, verbose, intercept), cfg, body)
        caught == r.exc \in Exceptions
    IN  [error |-> IF caught THEN <<testfunction, r.exc>> ELSE None,
         raised |-> IF caught THEN "none" ELSE r.exc,
         out |-> r.out \o (IF caught
                           THEN <<Tok("traceback", FnNone, r.exc, "")>>
                           ELSE <<>>),
         rng |-> a.rng, invoked |-> TRUE, body_exc |-> body.exc,
         seen |-> a.seen,
         res |-> IF a.exc # "none" THEN None ELSE <<"result">>,
         before |-> r.before, captured |-> r.captured]

\* safe_test_function_call(testset, testfunction, args, verbose,
\* intercept_output, seed, dry_run) in generator state rng0, the body
\* behaving as b; dry_run is None, <<TRUE>> or <<FALSE>>.
safe_test_function_call(testfunction, verbose, intercept, sd, dry_run, cfg, rng0, entropy, b) ==
    LET dry == IF dry_run = None THEN cfg.dry_run ELSE dry_run[1]
        testname == testfunction
        report_call == call_reported(testname, verbose, intercept)
        a == apply_with_seed(rng0, sd, entropy, b.draws, b.exc)
        body == IF dry THEN [prints |-> <<>>, exc |-> "none"]
                       ELSE [prints |-> b.prints, exc |-> a.exc]
        r == no_output(testname, <<~intercept>>, report_call, cfg, body)
        caught == r.exc \in Exceptions          \* except Exception as e
    IN  [error |-> IF caught THEN <<testname, r.exc>> ELSE None,
         raised |-> IF caught THEN "none" ELSE r.exc,
         out |-> r.out \o (IF caught
                           THEN <<Tok("traceback", FnNone, r.exc, "")>>
                           ELSE <<>>),
         rng |-> IF dry THEN rng0 ELSE a.rng,
         invoked |-> ~dry,
         body_exc |-> body.exc,
         seen |-> IF dry THEN -1 ELSE a.seen,
         \* res stays None (line 149) unless the body returned (line 162)
         res |-> IF dry \/ a.exc # "none" THEN None ELSE <<"result">>,
         before |-> r.before, captured |-> r.captured]

\* The record kept of one phase: the function safe_test_function_call was
\* given, its seed, whether the body was invoked (not in a dry run), the
\* generator state the body started in and what the body raised.
Call(fn, sd, r) ==
    [fn |-> fn, seed |-> sd, body |-> r.invoked, seen |-> r.seen,
     exc |-> r.body_exc, res |-> r.res, error |-> r.error]
Invoke(r, fn, sd) == Append(calls, Call(fn, sd, r))

(* ------------------------------ run_testset --------------------------- *)
TestLists == {[i \in 1..n |-> i] : n \in 0..MaxTests}

\* the variables of a part of the program that is not running
RunIdle ==
    /\ pc = "idle"
    /\ test_name_list = <<>> /\ intercept_output = TRUE /\ seed = NoSeed
    /\ executed = 0 /\ errors = <<>> /\ not_ran = <<>> /\ err = None
    /\ it = 0
    /\ test_seed = NoSeed /\ test_teardown_seed = NoSeed /\ teardown_seed = NoSeed
    /\ calls = <<>> /\ pending = "none" /\ ret = None
CallIdle ==
    op = "none" /\ arg = None /\ res = None
ClusterIdle ==
    /\ gpc = "idle" /\ cluster = None /\ arg_cluster = None
    /\ requirements = {} /\ reuse_clusters = TRUE /\ satisfiable = None
    /\ unsatisfied = <<>> /\ cluster_index = 0 /\ events = <<>> /\ hooks = 0
    /\ gres = "none" /\ ncalls = 0 /\ teardowns = 0

PollIdle ==
    /\ ppc = "idle" /\ attempts = None /\ timeout = None /\ sleep_time = 1
    /\ true_at = 0 /\ elapsed = 0 /\ attempt_count = 0 /\ evals = 0

InitRun ==
    /\ CallIdle /\ ClusterIdle /\ PollIdle
    /\ config \in {c \in Configs : ~c.verbose}
    /\ rng \in 0..(RngStates - 1)
    /\ test_name_list \in TestLists
    /\ intercept_output \in BOOLEAN
    /\ seed \in Seeds
    /\ pc = "setup"
    /\ executed = 0 /\ errors = <<>> /\ not_ran = <<>> /\ err = None
    /\ it = 0
    /\ test_seed = NoSeed /\ test_teardown_seed = NoSeed /\ teardown_seed = NoSeed
    /\ calls = <<>>
    /\ pending = "none"
    /\ ret = None

\* lines 95-97
Setup ==
    /\ pc = "setup"
    /\ \E b \in RunBehaviours, entropy \in 0..(RngStates - 1) :
         LET r == safe_test_function_call(FnSetup, FALSE, intercept_output,
                                          seed, None, config, rng, entropy, b)
         IN  /\ err' = r.error
             /\ rng' = r.rng
             /\ calls' = Invoke(r, FnSetup, seed)
             /\ pending' = r.raised
             /\ pc' = IF r.raised = "none" THEN "seeds" ELSE "raised"
    /\ UNCHANGED <<poll_vars, config, test_name_list, intercept_output, seed, executed,
                   errors, not_ran, it, test_seed, test_teardown_seed,
                   teardown_seed, ret, call_vars, cluster_vars>>

\* Variant: the three seeds are all drawn from the initial seed.
DeriveSeeds_from_initial ==
    /\ pc = "seeds"
    /\ \E entropy \in 0..(RngStates - 1) :
         LET a1 == apply_with_seed(rng, seed, entropy, 1, "none")
         IN  /\ test_seed' = a1.value
             /\ test_teardown_seed' = a1.value
             /\ teardown_seed' = a1.value
             /\ rng' = a1.rng
    /\ pc' = "check"
    /\ UNCHANGED <<poll_vars, config, test_name_list, intercept_output, seed, executed,
                   errors, not_ran, err, it, calls, pending, ret,
                   call_vars, cluster_vars>>

\* lines 99-101
DeriveSeeds ==
    /\ pc = "seeds"
    /\ \E entropy \in 0..(RngStates - 1) :
         LET a1 == apply_with_seed(rng, seed, entropy, 1, "none")
             a2 == apply_with_seed(a1.rng, a1.value, entropy, 1, "none")
             a3 == apply_with_seed(a2.rng, a2.value, entropy, 1, "none")
         IN  /\ test_seed' = a1.value
             /\ test_teardown_seed' = a2.value
             /\ teardown_seed' = a3.value
             /\ rng' = a3.rng
    /\ pc' = "check"
    /\ UNCHANGED <<poll_vars, config, test_name_list, intercept_output, seed, executed,
                   errors, not_ran, err, it, calls, pending, ret,
                   call_vars, cluster_vars>>

\* lines 103-108
SetupFailed ==
    /\ pc = "check"
    /\ err # None
    /\ not_ran' = not_ran \o [i \in 1..Len(test_name_list) |->
                                <<test_name_list[i], "testset setup failed">>]
    /\ ret' = <<[executed |-> 0, errors |-> <<err>>, not_ran |-> not_ran']>>
    /\ pc' = "done"
    /\ UNCHANGED <<poll_vars, config, rng, test_name_list, intercept_output, seed, executed,
                   errors, err, it, test_seed, test_teardown_seed,
                   teardown_seed, calls, pending, call_vars, cluster_vars>>

\* Variant: the early return of line 108 is missing.
SetupOk_unchecked ==
    /\ pc = "check"
    /\ pc' = "for"
    /\ UNCHANGED <<poll_vars, config, rng, test_name_list, intercept_output, seed, executed,
                   errors, not_ran, err, it, test_seed, test_teardown_seed,
                   teardown_seed, calls, pending, ret, call_vars,
                   cluster_vars>>

\* lines 103, 110
SetupOk ==
    /\ pc = "check"
    /\ err = None
    /\ pc' = "for"
    /\ UNCHANGED <<poll_vars, config, rng, test_name_list, intercept_output, seed, executed,
                   errors, not_ran, err, it, test_seed, test_teardown_seed,
                   teardown_seed, calls, pending, ret, call_vars,
                   cluster_vars>>

\* Variant: a raising test ends the loop.
Test_stop_on_error ==
    /\ pc = "for"
    /\ it < Len(test_name_list)
    /\ it' = it + 1
    /\ executed' = executed + 1
    /\ \E b \in RunBehaviours :
         LET test == test_name_list[it + 1]
             r == safe_test_function_call(FnTest(test), TRUE, intercept_output,
                                          test_seed, None, config, rng, 0, b)
         IN  /\ err' = r.error
             /\ errors' = IF r.error # None THEN Append(errors, r.error) ELSE errors
             /\ rng' = r.rng
             /\ calls' = Invoke(r, FnTest(test), test_seed)
             /\ pending' = r.raised
             /\ pc' = IF r.raised = "none" /\ r.error = None THEN "test_teardown"
                      ELSE "finally"
    /\ UNCHANGED <<poll_vars, config, test_name_list, intercept_output, seed, not_ran,
                   test_seed, test_teardown_seed, teardown_seed, ret, call_vars,
                   cluster_vars>>

\* lines 111-120
Test ==
    /\ pc = "for"
    /\ it < Len(test_name_list)
    /\ it' = it + 1
    /\ executed' = executed + 1
    /\ \E b \in RunBehaviours :
         LET test == test_name_list[it + 1]
             r == safe_test_function_call(FnTest(test), TRUE, intercept_output,
                                          test_seed, None, config, rng, 0, b)
         IN  /\ err' = r.error
             /\ errors' = IF r.error # None THEN Append(errors, r.error) ELSE errors
             /\ rng' = r.rng
             /\ calls' = Invoke(r, FnTest(test), test_seed)
             /\ pending' = r.raised
             /\ pc' = IF r.raised = "none" THEN "test_teardown" ELSE "finally"
    /\ UNCHANGED <<poll_vars, config, test_name_list, intercept_output, seed, not_ran,
                   test_seed, test_teardown_seed, teardown_seed, ret, call_vars, cluster_vars>>

\* Variant: the break of line 133 is missing.
TestTeardown_no_break ==
    /\ pc = "test_teardown"
    /\ \E b \in RunBehaviours :
         LET r == safe_test_function_call(FnTestTeardown, FALSE, intercept_output,
                                          test_teardown_seed, None, config, rng, 0, b)
         IN  /\ err' = r.error
             /\ rng' = r.rng
             /\ calls' = Invoke(r, FnTestTeardown, test_teardown_seed)
             /\ pending' = r.raised
             /\ IF r.raised # "none"
                THEN /\ UNCHANGED <<errors, not_ran>>
                     /\ pc' = "finally"
                ELSE IF r.error # None
                THEN /\ errors' = Append(errors, r.error)
                     /\ not_ran' = not_ran \o
                          [i \in 1..(Len(test_name_list) - executed) |->
                             <<test_name_list[executed + i],
                               "Earlier test_teardown failed">>]
                     /\ pc' = "for"
                ELSE /\ UNCHANGED <<errors, not_ran>>
                     /\ pc' = "for"
    /\ UNCHANGED <<poll_vars, config, test_name_list, intercept_output, seed, executed, it,
                   test_seed, test_teardown_seed, teardown_seed, ret, call_vars,
                   cluster_vars>>

\* Variant: the names not ran are taken from the test just executed on.
TestTeardown_slice_early ==
    /\ pc = "test_teardown"
    /\ \E b \in RunBehaviours :
         LET r == safe_test_function_call(FnTestTeardown, FALSE, intercept_output,
                                          test_teardown_seed, None, config, rng, 0, b)
         IN  /\ err' = r.error
             /\ rng' = r.rng
             /\ calls' = Invoke(r, FnTestTeardown, test_teardown_seed)
             /\ pending' = r.raised
             /\ IF r.raised # "none"
                THEN /\ UNCHANGED <<errors, not_ran>>
                     /\ pc' = "finally"
                ELSE IF r.error # None
                THEN /\ errors' = Append(errors, r.error)
                     /\ not_ran' = not_ran \o
                          [i \in 1..(Len(test_name_list) - executed + 1) |->
                             <<test_name_list[executed + i - 1],
                               "Earlier test_teardown failed">>]
                     /\ pc' = "finally"
                ELSE /\ UNCHANGED <<errors, not_ran>>
                     /\ pc' = "for"
    /\ UNCHANGED <<poll_vars, config, test_name_list, intercept_output, seed, executed, it,
                   test_seed, test_teardown_seed, teardown_seed, ret, call_vars, cluster_vars>>

\* lines 122-133
TestTeardown ==
    /\ pc = "test_teardown"
    /\ \E b \in RunBehaviours :
         LET r == safe_test_function_call(FnTestTeardown, FALSE, intercept_output,
                                          test_teardown_seed, None, config, rng, 0, b)
         IN  /\ err' = r.error
             /\ rng' = r.rng
             /\ calls' = Invoke(r, FnTestTeardown, test_teardown_seed)
             /\ pending' = r.raised
             /\ IF r.raised # "none"
                THEN /\ UNCHANGED <<errors, not_ran>>
                     /\ pc' = "finally"
                ELSE IF r.error # None
                THEN /\ errors' = Append(errors, r.error)
                     /\ not_ran' = not_ran \o
                          [i \in 1..(Len(test_name_list) - executed) |->
                             <<test_name_list[executed + i],
                               "Earlier test_teardown failed">>]
                     /\ pc' = "finally"
                ELSE /\ UNCHANGED <<errors, not_ran>>
                     /\ pc' = "for"
    /\ UNCHANGED <<poll_vars, config, test_name_list, intercept_output, seed, executed, it,
                   test_seed, test_teardown_seed, teardown_seed, ret, call_vars, cluster_vars>>

\* line 111, iterator exhausted
ForEnd ==
    /\ pc = "for"
    /\ it = Len(test_name_list)
    /\ pc' = "finally"
    /\ UNCHANGED <<poll_vars, config, rng, test_name_list, intercept_output, seed, executed,
                   errors, not_ran, err, it, test_seed, test_teardown_seed,
                   teardown_seed, calls, pending, ret, call_vars,
                   cluster_vars>>

\* lines 134-140
Teardown ==
    /\ pc = "finally"
    /\ \E b \in RunBehaviours :
         LET r == safe_test_function_call(FnTeardown, FALSE, intercept_output,
                                          teardown_seed, None, config, rng, 0, b)
         IN  /\ err' = r.error
             /\ errors' = IF r.error # None THEN Append(errors, r.error) ELSE errors
             /\ rng' = r.rng
             /\ calls' = Invoke(r, FnTeardown, teardown_seed)
             /\ pending' = IF r.raised # "none" THEN r.raised ELSE pending
             /\ pc' = IF r.raised = "none" /\ pending = "none" THEN "return"
                      ELSE "raised"
    /\ UNCHANGED <<poll_vars, config, test_name_list, intercept_output, seed, executed,
                   not_ran, it, test_seed, test_teardown_seed, teardown_seed, ret, call_vars, cluster_vars>>

\* line 142
Return ==
    /\ pc = "return"
    /\ ret' = <<[executed |-> executed, errors |-> errors, not_ran |-> not_ran]>>
    /\ pc' = "done"
    /\ UNCHANGED <<poll_vars, config, rng, test_name_list, intercept_output, seed, executed,
                   errors, not_ran, err, it, test_seed, test_teardown_seed,
                   teardown_seed, calls, pending, call_vars, cluster_vars>>

(* ------------- one call of apply_with_seed or of no_output ----------- *)
AllSeeds == Seeds \cup {BytesSeed(v) : v \in 0..(RngStates - 1)}
Names == {FnSetup, FnTest(1)}
Contexts == {nullcontext} \cup
            {call_reported(n, v, l) : n \in Names, v \in BOOLEAN, l \in BOOLEAN}
Bodies == [exc : Outcomes, prints : Outputs]

InitCall ==
    /\ config \in Configs
    /\ rng \in 0..(RngStates - 1)
    /\ RunIdle /\ CallIdle /\ ClusterIdle /\ PollIdle

\* apply_with_seed(obj, func, args, seed), lines 171-177
CallApplyWithSeed ==
    /\ op = "none"
    /\ \E sd \in AllSeeds, entropy \in 0..(RngStates - 1),
          draws \in 0..MaxDraws, exc \in Outcomes :
         LET a == apply_with_seed(rng, sd, entropy, draws, exc)
         IN  /\ arg' = [rng |-> rng, seed |-> sd, entropy |-> entropy,
                        draws |-> draws, exc |-> exc]
             /\ res' = a
             /\ rng' = a.rng
    /\ op' = "apply_with_seed"
    /\ UNCHANGED <<poll_vars, config, run_vars, cluster_vars>>

\* a draw made outside the runner, after the call
OutsideDraw ==
    /\ op = "apply_with_seed"
    /\ op' = "outside_draw"
    /\ res' = [value |-> random_randbytes(rng)]
    /\ rng' = random_step(rng)
    /\ UNCHANGED <<poll_vars, config, arg, run_vars, cluster_vars>>

\* with no_output(name, verbose, extra_context): body, lines 403-437
CallNoOutput ==
    /\ op = "none"
    /\ \E name \in Names, verbose \in {None, <<TRUE>>, <<FALSE>>},
          extra_context \in Contexts, body \in Bodies :
         /\ arg' = [name |-> name, verbose |-> verbose,
                    extra_context |-> extra_context, body |-> body]
         /\ res' = no_output(name, verbose, extra_context, config, body)
    /\ op' = "no_output"
    /\ UNCHANGED <<poll_vars, config, rng, run_vars, cluster_vars>>

\* safe_test_function_call(testset, testfunction, [], verbose,
\* intercept_output, seed, dry_run), lines 145-168
CallSafe ==
    /\ op = "none"
    /\ \E fn \in Names, verbose \in BOOLEAN, intercept \in BOOLEAN,
          sd \in Seeds, dry_run \in {None, <<TRUE>>, <<FALSE>>},
          entropy \in 0..(RngStates - 1), b \in Behaviours :
         LET r == safe_test_function_call(fn, verbose, intercept, sd, dry_run,
                                          config, rng, entropy, b)
         IN  /\ arg' = [testfunction |-> fn, verbose |-> verbose,
                        intercept_output |-> intercept, seed |-> sd,
                        dry_run |-> dry_run, body |-> b]
             /\ res' = r
             /\ rng' = r.rng
    /\ op' = "safe_test_function_call"
    /\ UNCHANGED <<poll_vars, config, run_vars, cluster_vars>>

NextCall == CallApplyWithSeed \/ OutsideDraw \/ CallNoOutput \/ CallSafe

SpecCall == InitCall /\ [][NextCall]_vars

(* ------------- try_reuse_cluster, get_appropriate_cluster ------------- *)
Reqs == 1..NumReqs

RECURSIVE Perms(_)
Perms(S) == IF S = {} THEN {<<>>}
            ELSE UNION {{<<x>> \o q : q \in Perms(S \ {x})} : x \in S}

\* requirements.get_unmet_requirements(cluster): the requirements of the set
\* the cluster does not meet
get_unmet_requirements(R, c) == R \ c.met

\* requirements.create_cluster(auth, index, tmp_cluster_dir, kill_nodes): a
\* fresh cluster meeting R
create_cluster(R, index, id) ==
    [id |-> id, index |-> index, met |-> R, alive |-> TRUE]

\* atexit.register(kill_nodes), done inside create_cluster (lines 64-65)
atexit_register(h) == h + 1
\* atexit.unregister(kill_nodes) removes every registration of the function
atexit_unregister(h) == 0

Event(name, x) == <<name, x>>
EndCall(how) == /\ gres' = how /\ gpc' = IF how = "returned" THEN "idle" ELSE "failed"

\* get_appropriate_cluster is entered, lines 53-57
GacCall ==
    /\ gpc = "idle"
    /\ ncalls < MaxCalls
    /\ ncalls' = ncalls + 1
    /\ requirements' \in SUBSET Reqs
    /\ reuse_clusters' \in BOOLEAN
    /\ arg_cluster' = cluster
    /\ cluster_index' = 0
    /\ events' = <<>>
    /\ satisfiable' = None
    /\ unsatisfied' = <<>>
    /\ gres' = "none"
    /\ gpc' = IF cluster = None THEN "create"
              ELSE IF reuse_clusters' THEN "try_reuse" ELSE "teardown"
    /\ UNCHANGED <<poll_vars, config, rng, run_vars, call_vars, cluster, hooks, teardowns>>

\* Variant: the first check of line 35 is missing.
TryReuse_always_ask ==
    /\ gpc = "try_reuse"
    /\ events' = Append(events, Event("get_unmet_requirements", 0))
    /\ gpc' = "is_satisfiable"
    /\ UNCHANGED <<poll_vars, config, rng, run_vars, call_vars, cluster, arg_cluster,
                   requirements, reuse_clusters, satisfiable, unsatisfied,
                   cluster_index, hooks, gres, ncalls, teardowns>>

\* try_reuse_cluster lines 35-36, get_appropriate_cluster lines 58-60
TryReuse ==
    /\ gpc = "try_reuse"
    /\ events' = Append(events, Event("get_unmet_requirements", 0))
    /\ IF get_unmet_requirements(requirements, cluster[1]) = {}
       THEN EndCall("returned")
       ELSE gpc' = "is_satisfiable" /\ UNCHANGED gres
    /\ UNCHANGED <<poll_vars, config, rng, run_vars, call_vars, cluster, arg_cluster,
                   requirements, reuse_clusters, satisfiable, unsatisfied,
                   cluster_index, hooks, ncalls, teardowns>>

\* Variant: an unsatisfiable requirement set goes straight to create_cluster.
IsSatisfiable_no_teardown ==
    /\ gpc = "is_satisfiable"
    /\ events' = Append(events, Event("is_satisfiable", 0))
    /\ \E ok \in BOOLEAN, S \in SUBSET requirements :
         /\ satisfiable' = <<ok>>
         /\ unsatisfied' \in Perms(S)
         /\ gpc' = IF ok THEN "make_met" ELSE "create"
    /\ UNCHANGED <<poll_vars, config, rng, run_vars, call_vars, cluster, arg_cluster,
                   requirements, reuse_clusters, cluster_index, hooks, gres,
                   ncalls, teardowns>>

\* try_reuse_cluster lines 40-41 and 50: the requirement model answers
IsSatisfiable ==
    /\ gpc = "is_satisfiable"
    /\ events' = Append(events, Event("is_satisfiable", 0))
    /\ \E ok \in BOOLEAN, S \in SUBSET requirements :
         /\ satisfiable' = <<ok>>
         /\ unsatisfied' \in Perms(S)
         /\ gpc' = IF ok THEN "make_met" ELSE "teardown"
    /\ UNCHANGED <<poll_vars, config, rng, run_vars, call_vars, cluster, arg_cluster,
                   requirements, reuse_clusters, cluster_index, hooks, gres,
                   ncalls, teardowns>>

\* try_reuse_cluster lines 42-44: one turn of the loop.  make_met is the
\* requirement's own code: it may change what the cluster meets in any way,
\* or raise.
MakeMet ==
    /\ gpc = "make_met"
    /\ unsatisfied # <<>>
    /\ events' = Append(events, Event("make_met", Head(unsatisfied)))
    /\ \/ /\ \E m \in SUBSET Reqs : cluster' = <<[cluster[1] EXCEPT !.met = m]>>
          /\ unsatisfied' = Tail(unsatisfied)
          /\ UNCHANGED <<gpc, gres>>
       \/ /\ EndCall("raised")
          /\ UNCHANGED <<cluster, unsatisfied>>
    /\ UNCHANGED <<poll_vars, config, rng, run_vars, call_vars, arg_cluster, requirements,
                   reuse_clusters, satisfiable, cluster_index, hooks, ncalls,
                   teardowns>>

\* Variant: the check of lines 47-48 is missing.
Recheck_unchecked ==
    /\ gpc = "make_met"
    /\ unsatisfied = <<>>
    /\ events' = Append(events, Event("get_unmet_requirements", 0))
    /\ EndCall("returned")
    /\ UNCHANGED <<poll_vars, config, rng, run_vars, call_vars, cluster, arg_cluster,
                   requirements, reuse_clusters, satisfiable, unsatisfied,
                   cluster_index, hooks, ncalls, teardowns>>

\* try_reuse_cluster lines 45-49, get_appropriate_cluster lines 58-60
Recheck ==
    /\ gpc = "make_met"
    /\ unsatisfied = <<>>
    /\ events' = Append(events, Event("get_unmet_requirements", 0))
    /\ IF get_unmet_requirements(requirements, cluster[1]) # {}
       THEN EndCall("RuntimeError")
       ELSE EndCall("returned")
    /\ UNCHANGED <<poll_vars, config, rng, run_vars, call_vars, cluster, arg_cluster,
                   requirements, reuse_clusters, satisfiable, unsatisfied,
                   cluster_index, hooks, ncalls, teardowns>>

\* line 63; cluster.teardown() may raise
ClusterTeardown ==
    /\ gpc = "teardown"
    /\ events' = Append(events, Event("teardown", cluster[1].id))
    /\ \/ /\ cluster' = <<[cluster[1] EXCEPT !.alive = FALSE]>>
          /\ teardowns' = teardowns + 1
          /\ gpc' = "unregister"
          /\ UNCHANGED gres
       \/ /\ EndCall("raised")
          /\ UNCHANGED <<cluster, teardowns>>
    /\ UNCHANGED <<poll_vars, config, rng, run_vars, call_vars, arg_cluster, requirements,
                   reuse_clusters, satisfiable, unsatisfied, cluster_index,
                   hooks, ncalls>>

\* Variant: the exit hook of the old cluster is left registered.
Unregister_keep_hook ==
    /\ gpc = "unregister"
    /\ events' = Append(events, Event("atexit.unregister", 0))
    /\ cluster_index' = cluster[1].index + 1
    /\ gpc' = "create"
    /\ UNCHANGED <<poll_vars, config, rng, run_vars, call_vars, cluster, arg_cluster,
                   requirements, reuse_clusters, satisfiable, unsatisfied, gres,
                   hooks, ncalls, teardowns>>

\* Variant: the new cluster takes the index of the old one.
Unregister_same_index ==
    /\ gpc = "unregister"
    /\ events' = Append(events, Event("atexit.unregister", 0))
    /\ hooks' = atexit_unregister(hooks)
    /\ cluster_index' = cluster[1].index
    /\ gpc' = "create"
    /\ UNCHANGED <<poll_vars, config, rng, run_vars, call_vars, cluster, arg_cluster,
                   requirements, reuse_clusters, satisfiable, unsatisfied, gres,
                   ncalls, teardowns>>

\* lines 66-69
Unregister ==
    /\ gpc = "unregister"
    /\ events' = Append(events, Event("atexit.unregister", 0))
    /\ hooks' = atexit_unregister(hooks)
    /\ cluster_index' = cluster[1].index + 1
    /\ gpc' = "create"
    /\ UNCHANGED <<poll_vars, config, rng, run_vars, call_vars, cluster, arg_cluster,
                   requirements, reuse_clusters, satisfiable, unsatisfied, gres,
                   ncalls, teardowns>>

\* lines 72-79; create_cluster may raise
CreateCluster ==
    /\ gpc = "create"
    /\ events' = Append(events, Event("create_cluster", cluster_index))
    /\ \/ /\ cluster' = <<create_cluster(requirements, cluster_index, ncalls)>>
          /\ hooks' = atexit_register(hooks)
          /\ EndCall("returned")
       \/ /\ EndCall("raised")
          /\ UNCHANGED <<cluster, hooks>>
    /\ UNCHANGED <<poll_vars, config, rng, run_vars, call_vars, arg_cluster, requirements,
                   reuse_clusters, satisfiable, unsatisfied, cluster_index,
                   ncalls, teardowns>>

InitCluster ==
    /\ config \in {c \in Configs : ~c.dry_run}
    /\ rng = 0
    /\ RunIdle /\ CallIdle /\ ClusterIdle /\ PollIdle

NextCluster ==
    \/ GacCall \/ TryReuse \/ IsSatisfiable \/ MakeMet \/ Recheck
    \/ ClusterTeardown \/ Unregister \/ CreateCluster

SpecCluster == InitCluster /\ [][NextCluster]_vars

(* ========================== poll_for_condition ======================== *)
\* poll_for_condition(fun, sleep_time, attempts, timeout), lines 375-396.
\* Time is counted in clock ticks since start_time. time.sleep(sleep_time)
\* lasts sleep_time ticks or up to MaxLag more, and fun() returns. The clock
\* reading is kept below MaxClock, which no timeout reaches.
MaxClock == MaxTimeout + (MaxAttempts + 1) * (MaxSleep + MaxLag)
Opt(S) == {None} \cup {<<x>> : x \in S}
Min(a, b) == IF a < b THEN a ELSE b

InitPoll ==
    /\ RunIdle /\ CallIdle /\ ClusterIdle
    /\ config \in {c \in Configs : ~c.verbose /\ ~c.dry_run}
    /\ rng = 0
    /\ ppc = "entry"
    /\ attempts \in Opt(0..MaxAttempts)
    /\ timeout \in Opt(0..MaxTimeout)
    /\ sleep_time \in 0..MaxSleep
    /\ true_at \in 0..(MaxAttempts + 1)
    /\ elapsed = 0 /\ attempt_count = 0 /\ evals = 0

\* lines 378-383: the two assertions on the arguments, start_time,
\* attempt_count = 0
PollEntry ==
    /\ ppc = "entry"
    /\ ppc' = IF (attempts # None \/ timeout # None) /\ sleep_time > 0
              THEN "while" ELSE "bad_args"
    /\ UNCHANGED <<config, rng, run_vars, call_vars, cluster_vars, attempts,
                   timeout, sleep_time, true_at, elapsed, attempt_count, evals>>

\* lines 384-387 and 395-396: the loop condition, then the timeout assertion
PollWhile ==
    /\ ppc = "while"
    /\ ppc' = IF attempts = None \/ attempt_count < attempts[1]
              THEN IF timeout # None /\ ~(elapsed < timeout[1])
                   THEN "timed_out" ELSE "fun"
              ELSE "exhausted"
    /\ UNCHANGED <<config, rng, run_vars, call_vars, cluster_vars, attempts,
                   timeout, sleep_time, true_at, elapsed, attempt_count, evals>>

\* lines 388-391: if fun(): return
PollFun ==
    /\ ppc = "fun"
    /\ evals' = evals + 1
    /\ ppc' = IF true_at # 0 /\ evals + 1 >= true_at THEN "returned" ELSE "sleep"
    /\ UNCHANGED <<config, rng, run_vars, call_vars, cluster_vars, attempts,
                   timeout, sleep_time, true_at, elapsed, attempt_count>>

\* Variant: the attempt is not counted.
PollSleep_uncounted ==
    /\ ppc = "sleep"
    /\ \E lag \in 0..MaxLag :
         elapsed' = Min(elapsed + sleep_time + lag, MaxClock)
    /\ ppc' = "while"
    /\ UNCHANGED <<config, rng, run_vars, call_vars, cluster_vars, attempts,
                   timeout, sleep_time, true_at, attempt_count, evals>>

\* lines 392-394: time.sleep(sleep_time); attempt_count += 1
PollSleep ==
    /\ ppc = "sleep"
    /\ \E lag \in 0..MaxLag :
         elapsed' = Min(elapsed + sleep_time + lag, MaxClock)
    /\ attempt_count' = attempt_count + 1
    /\ ppc' = "while"
    /\ UNCHANGED <<config, rng, run_vars, call_vars, cluster_vars, attempts,
                   timeout, sleep_time, true_at, evals>>

NextPoll == PollEntry \/ PollWhile \/ PollFun \/ PollSleep
SpecPoll == InitPoll /\ [][NextPoll]_vars
\* The function runs in one thread that nothing suspends for ever: a step it
\* can take is taken.
SpecPollLive == SpecPoll /\ WF_vars(NextPoll)


NextRun ==
    \/ Setup \/ DeriveSeeds \/ SetupFailed \/ SetupOk \/ Test \/ TestTeardown
    \/ ForEnd \/ Teardown \/ Return

SpecRun == InitRun /\ [][NextRun]_vars

(* =============================== claims =============================== *)
CallsOf(kind) == {p \in DOMAIN calls : calls[p].fn[1] = kind}
NumCalls(kind) == Cardinality(CallsOf(kind))
Raised(p) == calls[p].exc # "none"
SetupRaised == calls # <<>> /\ calls[1].fn = FnSetup /\ Raised(1)
TestTeardownRaised(p) ==
    p \in DOMAIN calls /\ calls[p].fn = FnTestTeardown /\ Raised(p)
Range(q) == {q[i] : i \in DOMAIN q}
NotRanFrom(k, reason) ==
    [i \in 1..(Len(test_name_list) - k) |-> <<test_name_list[k + i], reason>>]

\* C1: whenever run_testset has returned, teardown was invoked exactly once,
\* whatever raised before (setup included).
C1_TeardownOnceOnReturn ==
    pc = "done" => NumCalls("teardown") = 1

\* C2: if setup raises, no test and no test_teardown is invoked, and
\* run_testset returns executed = 0, the setup error alone as the error list
\* and every test name, in list order, as not ran "testset setup failed".
C2_SetupFailure ==
    SetupRaised =>
      /\ NumCalls("test") = 0 /\ NumCalls("test_teardown") = 0
      /\ pc \in {"seeds", "check", "done"}
      /\ pc = "done" =>
            ret = <<[executed |-> 0,
                     errors |-> << <<FnSetup, calls[1].exc>> >>,
                     not_ran |-> NotRanFrom(0, "testset setup failed")]>>
C2_Witness ==
    pc = "done" /\ SetupRaised /\ Len(test_name_list) >= 2

\* C3: if the test_teardown after the i-th test raises, no later test and no
\* later test_teardown is invoked, not_ran is tests i+1..n in list order with
\* "Earlier test_teardown failed", the error is in the error list, and
\* teardown is invoked exactly once, afterwards.
C3_TestTeardownFailure ==
    \A p \in DOMAIN calls : TestTeardownRaised(p) =>
      LET i == Cardinality({q \in CallsOf("test") : q < p})
      IN  /\ \A q \in DOMAIN calls : q > p => calls[q].fn = FnTeardown
          /\ {calls[q].fn : q \in CallsOf("test")}
               = {FnTest(test_name_list[k]) : k \in 1..i}
          /\ not_ran = NotRanFrom(i, "Earlier test_teardown failed")
          /\ <<FnTestTeardown, calls[p].exc>> \in Range(errors)
          /\ pc \in {"finally", "return", "done"}
          /\ pc = "finally" => NumCalls("teardown") = 0
          /\ pc \in {"return", "done"} =>
                NumCalls("teardown") = 1 /\ calls[Len(calls)].fn = FnTeardown
          /\ pc = "done" =>
                /\ ret[1].not_ran = NotRanFrom(i, "Earlier test_teardown failed")
                /\ <<FnTestTeardown, calls[p].exc>> \in Range(ret[1].errors)
C3_Witness ==
    /\ pc = "done" /\ Len(test_name_list) = 3
    /\ TestTeardownRaised(3) /\ Len(ret[1].not_ran) = 2

\* C4: a raising test does not stop run_testset: its test_teardown is still
\* invoked, the following tests run as long as no test_teardown raises, and
\* executed counts the tests invoked.  Three tests of which only the second
\* raises give executed = 3, one error naming test 2 and an empty not_ran.
OnlyTest2Raises ==
    /\ \E p \in DOMAIN calls : calls[p].fn = FnTest(2) /\ Raised(p)
    /\ \A p \in DOMAIN calls : Raised(p) => calls[p].fn = FnTest(2)
C4_TestFailureContained ==
    /\ \A p \in CallsOf("test") :
         IF p = Len(calls) THEN pc = "test_teardown"
                           ELSE calls[p + 1].fn = FnTestTeardown
    /\ (pc = "done" /\ ~SetupRaised) =>
         /\ ret[1].executed = NumCalls("test")
         /\ (\A p \in DOMAIN calls : ~TestTeardownRaised(p)) =>
               NumCalls("test") = Len(test_name_list)
         /\ (Len(test_name_list) = 3 /\ OnlyTest2Raises) =>
               ret = <<[executed |-> 3,
                        errors |-> << <<FnTest(2), "ValueError">> >>,
                        not_ran |-> <<>>]>>
C4_Witness ==
    pc = "done" /\ Len(test_name_list) = 3 /\ OnlyTest2Raises

Kinds(q, ks) == SelectSeq(q, LAMBDA t : t.t \in ks)
TextOf(q) == [i \in DOMAIN Kinds(q, {"text"}) |-> Kinds(q, {"text"})[i].text]
Redirected ==
    op = "no_output" /\
    ~(IF arg.verbose = None THEN config.verbose ELSE arg.verbose[1])

\* C9: with redirection on, a body that returns leaves nothing of its output
\* and no banner on the real output; a body that raises has its captured
\* output written once, between a begin and an end banner naming the phase
\* (no banner for an empty capture), and the same exception leaves no_output.
C9_NoOutput ==
    Redirected =>
      LET body == arg.body
          marks == Kinds(res.out, {"begin", "text", "end"})
      IN  /\ res.exc = body.exc
          /\ (body.exc = "none" \/ body.prints = <<>>) => marks = <<>>
          /\ (body.exc # "none" /\ body.prints # <<>>) =>
                /\ marks[1] = Tok("begin", arg.name, "", "")
                /\ marks[Len(marks)] = Tok("end", arg.name, "", "")
                /\ Len(Kinds(res.out, {"begin"})) = 1
                /\ Len(Kinds(res.out, {"end"})) = 1
                /\ TextOf(res.out) \in {body.prints, body.prints \o <<"\n">>}
C9_Witness ==
    /\ Redirected /\ arg.body.exc # "none" /\ Len(arg.body.prints) = 2
    /\ arg.extra_context.kind = "call_reported" /\ arg.extra_context.verbose

\* C10: when apply_with_seed has returned or raised, the generator is in the
\* state it had on entry, whatever the seed and the draws of the method, so
\* a draw made outside afterwards gives what it would have given before.
C10_GeneratorRestored ==
    /\ op = "apply_with_seed" => rng = arg.rng
    /\ op = "outside_draw" => res.value = random_randbytes(arg.rng)
C10_Witness ==
    /\ op = "apply_with_seed" /\ arg.exc # "none" /\ arg.draws > 0
    /\ res.during # arg.rng /\ res.seen # arg.rng

(* ---- get_appropriate_cluster, under SpecCluster ---- *)
Has(name) == \E i \in DOMAIN events : events[i][1] = name
Lifecycle ==
    LET q == SelectSeq(events, LAMBDA e : e[1] \in {"teardown", "atexit.unregister",
                                                     "create_cluster"})
    IN  [i \in DOMAIN q |-> q[i][1]]
FullRebuild == <<"teardown", "atexit.unregister", "create_cluster">>
NoRebuild ==
    ~Has("teardown") /\ ~Has("create_cluster") /\ ~Has("make_met")
    /\ ~Has("atexit.unregister")
MetOnEntry ==
    arg_cluster # None /\ get_unmet_requirements(requirements, arg_cluster[1]) = {}

\* C5: whenever the existing cluster C has no unmet requirement,
\* get_appropriate_cluster returns C itself and calls none of teardown,
\* create_cluster, make_met and atexit.unregister.
C5_ReuseWhenMet ==
    MetOnEntry => NoRebuild /\ (gres = "returned" => cluster = arg_cluster)

\* C5 as amended: the same, when reuse_clusters is true.
C5_ReuseWhenMetAndAllowed ==
    (MetOnEntry /\ reuse_clusters) =>
      /\ NoRebuild
      /\ gpc \in {"try_reuse", "idle"}
      /\ gres = "returned" => cluster = arg_cluster
C5_Witness ==
    MetOnEntry /\ reuse_clusters /\ gres = "returned" /\ requirements = Reqs

\* C6: with reuse allowed and the requirements reported satisfiable, the
\* call ends either by returning C with no unmet requirement or by a
\* RuntimeError leaving get_appropriate_cluster (or by make_met's own
\* exception); C is never returned with unmet requirements, is not torn
\* down, and no cluster is created.
C6_SatisfiableReuse ==
    (reuse_clusters /\ satisfiable = <<TRUE>>) =>
      /\ gpc \in {"make_met", "idle", "failed"}
      /\ ~Has("teardown") /\ ~Has("create_cluster")
      /\ cluster[1].alive /\ cluster[1].id = arg_cluster[1].id
      /\ gres = "returned" =>
            get_unmet_requirements(requirements, cluster[1]) = {}
      /\ gres = "RuntimeError" =>
            get_unmet_requirements(requirements, cluster[1]) # {}
      /\ gpc = "failed" => gres \in {"RuntimeError", "raised"}
      /\ gres = "raised" => events[Len(events)][1] = "make_met"
C6_Witness ==
    /\ reuse_clusters /\ satisfiable = <<TRUE>> /\ Has("make_met")
    /\ gres = "RuntimeError"

\* C7: when the existing cluster is not reused, the calls are teardown, then
\* atexit.unregister, then create_cluster, in this order; create_cluster
\* starts only after teardown has returned; with reuse_clusters false the
\* requirement model is asked nothing.
C7_RebuildOrder ==
    /\ (arg_cluster # None /\ (~reuse_clusters \/ satisfiable = <<FALSE>>)) =>
         /\ \E k \in 0..3 : Lifecycle = SubSeq(FullRebuild, 1, k)
         /\ gres = "returned" => Lifecycle = FullRebuild
    /\ (arg_cluster # None /\ Has("create_cluster")) =>
         /\ Lifecycle = FullRebuild
         /\ teardowns >= 1
    /\ (arg_cluster # None /\ gpc = "create") => ~cluster[1].alive
    /\ ~reuse_clusters =>
         ~Has("get_unmet_requirements") /\ ~Has("is_satisfiable")
         /\ ~Has("make_met")
C7_Witness ==
    /\ arg_cluster # None /\ gres = "returned" /\ Lifecycle = FullRebuild
    /\ satisfiable = <<FALSE>>

(* ===================== seed chain of run_testset ===================== *)
\* The seed each kind of phase is given in the run that starts from seed sd
\* when the system entropy source yields e (e matters only for sd = None).
ChainSeed(kind, sd, e) ==
    LET ts  == random_randbytes(random_seed(sd, e))
        tts == random_randbytes(random_seed(ts, e))
        tds == random_randbytes(random_seed(tts, e))
    IN  CASE kind = "setup" -> sd
          [] kind = "test" -> ts
          [] kind = "test_teardown" -> tts
          [] kind = "teardown" -> tds

\* The generator state a phase of that run starts in.
ChainSeen(kind, sd, e) == random_seed(ChainSeed(kind, sd, e), e)

\* Every body that ran so far started in the state it starts in, in the run
\* with the same initial seed and entropy e.
AgreesWithRun(e) ==
    \A p \in 1..Len(calls) :
        calls[p].body => calls[p].seen = ChainSeen(calls[p].fn[1], seed, e)

\* C11 as stated: any two runs of the same testset from the same initial seed
\* start every phase in the same generator state, whatever the generator
\* state before the run and whatever the bodies draw. Two runs agree exactly
\* when each agrees with one reference run; the reference run taken here is
\* the one in which the entropy source yields 0.
C11_SameSeedSameStates == AgreesWithRun(0)

\* C11, amended: when the initial seed is not None, every phase of every run
\* starts in the generator state fixed by that seed and the kind of the
\* phase alone: the state before the run, the entropy source and the draws
\* of the bodies have no part in it.
C11_GivenSeedSameStates ==
    seed # NoSeed => \A e \in 0..(RngStates - 1) : AgreesWithRun(e)

\* A finished run from a given seed that started in a generator state other
\* than the one the seed gives, and in which a test and its teardown ran.
C11_Witness ==
    /\ pc = "done" /\ seed # NoSeed /\ rng # random_seed(seed, 0)
    /\ \E p \in 1..Len(calls) : calls[p].fn[1] = "test_teardown" /\ calls[p].body
    /\ \E p \in 1..Len(calls) : calls[p].fn[1] = "teardown" /\ calls[p].body

(* ========================= poll_for_condition ======================== *)
PollArgsOk == (attempts # None \/ timeout # None) /\ sleep_time > 0
PollEnded == ppc \in {"returned", "timed_out", "exhausted", "bad_args"}
PollFailed == ppc \in {"timed_out", "exhausted"}

\* What holds at every moment of a call with good arguments: fun() is
\* evaluated at most `attempts` times, the call fails by timeout only when
\* the timeout has elapsed, fails by attempts only when fun() was evaluated
\* `attempts` times with that many sleeps in between, returns only when
\* fun() was true, and does not fail on its arguments.
PollSafe ==
    PollArgsOk =>
      /\ ppc # "bad_args"
      /\ attempts # None => evals <= attempts[1]
      /\ ppc = "timed_out" => timeout # None /\ elapsed >= timeout[1]
      /\ ppc = "exhausted" =>
            /\ attempts # None /\ evals = attempts[1]
            /\ attempt_count = attempts[1]
            /\ elapsed >= attempts[1] * sleep_time
            /\ timeout # None /\ attempts[1] > 0 =>
                  elapsed - (sleep_time + MaxLag) < timeout[1]
      /\ ppc = "returned" => true_at # 0 /\ evals = true_at

\* C12: a call of poll_for_condition with attempts or timeout given and
\* sleep_time > 0 ends; when fun() is never true it ends in an assertion
\* failure, by attempts or by timeout, whichever bound is met first and not
\* before it is met; fun() is evaluated at most `attempts` times.
C12_PollTerminates ==
    /\ []PollSafe
    /\ <>PollEnded
    /\ (PollArgsOk /\ true_at = 0) => <>PollFailed

\* A call with both bounds given and a predicate that is never true has
\* failed on the timeout, after an evaluation and before the attempts were
\* used up.
C12_Witness ==
    /\ ppc = "timed_out" /\ attempts # None /\ timeout # None /\ true_at = 0
    /\ evals >= 1 /\ evals < attempts[1]

(* ================== exit hooks and cluster indices =================== *)
\* C13: over a sequence of calls of get_appropriate_cluster, each given the
\* cluster the previous one returned, at most one kill_nodes exit hook is
\* registered at any moment, none is registered when create_cluster is about
\* to register the next one, and exactly one is registered whenever a call
\* has returned a cluster.
C13_OneExitHook ==
    /\ hooks <= 1
    /\ gpc = "create" => hooks = 0
    /\ gres = "returned" => hooks = 1 /\ cluster # None /\ cluster[1].alive

\* A later call has torn the cluster down and returned a new one.
C13_Witness ==
    /\ gres = "returned" /\ arg_cluster # None /\ Lifecycle = FullRebuild
    /\ hooks = 1 /\ cluster[1].id # arg_cluster[1].id

\* C19: the first cluster has index 0, a cluster created in place of a torn
\* down one has that one's index plus 1, a reused cluster keeps its index,
\* so the index never decreases and the index of the cluster a call returns
\* is the number of teardowns performed so far.
C19_IndexCountsTeardowns ==
    /\ cluster # None /\ arg_cluster # None =>
          cluster[1].index >= arg_cluster[1].index
    /\ gres = "returned" =>
          /\ cluster[1].index = teardowns
          /\ arg_cluster = None => cluster[1].index = 0
          /\ arg_cluster # None /\ Has("create_cluster") =>
                cluster[1].index = arg_cluster[1].index + 1
          /\ arg_cluster # None /\ ~Has("create_cluster") =>
                /\ cluster[1].id = arg_cluster[1].id
                /\ cluster[1].index = arg_cluster[1].index

\* The third call reused the cluster that the second call had created in
\* place of the first.
C19_Witness ==
    /\ gres = "returned" /\ ncalls = 3 /\ teardowns = 1
    /\ ~Has("create_cluster") /\ cluster[1].index = 1

(* ====================== shape of a run_testset run ==================== *)
\* The functions whose bodies were invoked, in order.
Invoked == SelectSeq(calls, LAMBDA c : c.body)
InvokedFns == [i \in DOMAIN Invoked |-> Invoked[i].fn]

\* q is setup, then the first k tests of the list each followed by
\* test_teardown, then teardown.
IsRunShape(q, k) ==
    /\ Len(q) = 2 * k + 2
    /\ q[1] = FnSetup
    /\ q[Len(q)] = FnTeardown
    /\ \A j \in 1..k : /\ q[2 * j] = FnTest(test_name_list[j])
                       /\ q[2 * j + 1] = FnTestTeardown

\* C14: when run_testset has returned (not a dry run), the bodies were
\* invoked in the order setup, (test, test_teardown) for the tests of a
\* prefix of the list in list order, teardown: setup once and first, every
\* test at most once and followed at once by one test_teardown, teardown last.
C14_InvocationShape ==
    (pc = "done" /\ ~config.dry_run) =>
        \E k \in 0..Len(test_name_list) : IsRunShape(InvokedFns, k)

\* C15: setup is given the initial seed, every test test_seed, every
\* test_teardown test_teardown_seed and teardown teardown_seed; the three are
\* drawn, before any test runs, from generators seeded with the initial seed,
\* test_seed and test_teardown_seed in turn, whatever the bodies draw; and
\* they are three different seeds.
C15_PhaseSeeds ==
    /\ \A p \in DOMAIN calls :
          calls[p].seed = CASE calls[p].fn[1] = "setup" -> seed
                            [] calls[p].fn[1] = "test" -> test_seed
                            [] calls[p].fn[1] = "test_teardown" -> test_teardown_seed
                            [] calls[p].fn[1] = "teardown" -> teardown_seed
    /\ pc \in {"setup", "seeds"} => Len(calls) <= 1
    /\ pc \notin {"setup", "seeds"} =>
          /\ \E e \in 0..(RngStates - 1) :
                /\ test_seed = ChainSeed("test", seed, e)
                /\ test_teardown_seed = ChainSeed("test_teardown", seed, e)
                /\ teardown_seed = ChainSeed("teardown", seed, e)
          /\ test_seed # test_teardown_seed
          /\ test_seed # teardown_seed
          /\ test_teardown_seed # teardown_seed

\* A finished run in which two tests, their teardowns and teardown ran.
C15_Witness ==
    /\ pc = "done" /\ ~config.dry_run /\ seed # NoSeed
    /\ \E k \in 2..Len(test_name_list) : IsRunShape(InvokedFns, k)

(* ==================== apply_with_seed without a seed ================== *)
\* C16 as stated: called with seed None, apply_with_seed lets the method see
\* the generator in the state it had before the call.
C16_NoSeedPassThrough ==
    (op = "apply_with_seed" /\ arg.seed = NoSeed) => res.seen = arg.rng

\* C16, amended: called with seed None, apply_with_seed seeds the generator
\* from system entropy, so the method sees the state the entropy source
\* gives, whatever the state before the call; that state is back in place
\* when the call has ended.
C16_NoSeedReseeds ==
    (op = "apply_with_seed" /\ arg.seed = NoSeed) =>
        /\ res.seen = random_seed(NoSeed, arg.entropy)
        /\ rng = arg.rng

\* A call without a seed whose method drew from a state other than the one
\* before the call.
C16_Witness ==
    /\ op = "apply_with_seed" /\ arg.seed = NoSeed /\ arg.draws > 0
    /\ res.seen # arg.rng /\ rng = arg.rng

(* ============== call_reported inside no_output, redirected ============ *)
ReporterKinds == {"start", "ok", "failed", "short", "failed_line"}
FailKinds == {"failed", "short", "failed_line"}
Pos(q, ks) == {i \in DOMAIN q : q[i].t \in ks}
AllBefore(q, ks1, ks2) == \A i \in Pos(q, ks1), j \in Pos(q, ks2) : i < j

\* No line of the reporter is in the capture buffer.
NotCaptured(r) == Pos(r.captured, ReporterKinds) = {}

\* The start line naming the phase was on the real output, and nothing
\* else, when the body started.
StartLineFirst(r, name) ==
    /\ Len(r.before) = 1 /\ r.before[1].t = "start" /\ r.before[1].name = name
    /\ SubSeq(r.out, 1, 1) = r.before

\* After a failure of the body the real output holds the failed line of the
\* reporter, then the banner around the captured output (when there is
\* any), then the traceback (when tb).
FailureOrder(r, tb) ==
    /\ Pos(r.out, FailKinds) # {}
    /\ AllBefore(r.out, {"start"}, FailKinds)
    /\ AllBefore(r.out, FailKinds, {"begin", "text", "end", "traceback"})
    /\ AllBefore(r.out, {"begin"}, {"text", "end"})
    /\ AllBefore(r.out, {"text"}, {"end"})
    /\ AllBefore(r.out, {"begin", "text", "end"}, {"traceback"})
    /\ Cardinality(Pos(r.out, {"begin"})) = (IF r.captured = <<>> THEN 0 ELSE 1)
    /\ Cardinality(Pos(r.out, {"end"})) = (IF r.captured = <<>> THEN 0 ELSE 1)
    /\ r.captured # <<>> =>
          SubSeq(Kinds(r.out, {"text"}), 1, Len(r.captured)) = r.captured
    /\ Cardinality(Pos(r.out, {"traceback"})) = (IF tb THEN 1 ELSE 0)

NoOutputReported ==
    Redirected /\ arg.extra_context.kind = "call_reported"
SafeRedirected ==
    op = "safe_test_function_call" /\ arg.intercept_output

\* C17 as stated: with a call_reported extra_context and redirection on, no
\* line of the reporter is captured, the start line is on the real output
\* before the body starts, and after a failure of the body the real output
\* holds the failed line, then the banner with the captured output, then (in
\* safe_test_function_call) the traceback.
C17_StartLineAlways ==
    /\ NoOutputReported =>
          /\ NotCaptured(res)
          /\ StartLineFirst(res, arg.extra_context.name)
          /\ arg.body.exc # "none" => FailureOrder(res, FALSE)
    /\ SafeRedirected =>
          /\ NotCaptured(res)
          /\ StartLineFirst(res, arg.testfunction)
          /\ res.body_exc # "none" => FailureOrder(res, TRUE)

\* C17, amended: the same, the start line being written only by a verbose
\* reporter; a reporter that is not verbose writes no start line at all.
C17_ReporterNotCaptured ==
    /\ NoOutputReported =>
          /\ NotCaptured(res)
          /\ IF arg.extra_context.verbose
             THEN StartLineFirst(res, arg.extra_context.name)
             ELSE Pos(res.out, {"start"}) = {} /\ res.before = <<>>
          /\ arg.body.exc # "none" => FailureOrder(res, FALSE)
    /\ SafeRedirected =>
          /\ NotCaptured(res)
          /\ IF arg.verbose
             THEN StartLineFirst(res, arg.testfunction)
             ELSE Pos(res.out, {"start"}) = {} /\ res.before = <<>>
          /\ res.body_exc # "none" => FailureOrder(res, TRUE)

\* A redirected, verbosely reported call of safe_test_function_call whose
\* body printed and raised.
C17_Witness ==
    /\ SafeRedirected /\ arg.verbose /\ res.invoked
    /\ res.body_exc # "none" /\ Len(res.captured) = 2
    /\ Len(res.out) >= 7

(* ================================ dry run ============================= *)
AllPhases(n) ==
    <<FnSetup>>
      \o [i \in 1..(2 * n) |-> IF i % 2 = 1 THEN FnTest(test_name_list[(i + 1) \div 2])
                                             ELSE FnTestTeardown]
      \o <<FnTeardown>>

\* C18: in a dry run no body is invoked and safe_test_function_call returns
\* (None, None) for every phase; run_testset still goes through setup, every
\* test with its test_teardown, and teardown, and returns executed = n, no
\* errors and nothing not ran.
C18_DryRun ==
    config.dry_run =>
      /\ \A p \in DOMAIN calls :
            ~calls[p].body /\ calls[p].res = None /\ calls[p].error = None
      /\ err = None /\ errors = <<>> /\ not_ran = <<>>
      /\ pc = "done" =>
            /\ [p \in DOMAIN calls |-> calls[p].fn] = AllPhases(Len(test_name_list))
            /\ ret = <<[executed |-> Len(test_name_list), errors |-> <<>>,
                        not_ran |-> <<>>]>>

\* A dry run over two tests or more has returned.
C18_Witness ==
    /\ config.dry_run /\ pc = "done" /\ Len(test_name_list) >= 2
    /\ Len(calls) = 2 * Len(test_name_list) + 2

(* ============== the return value of run_testset as a whole ============ *)
\* the errors of the phases that returned one, in the order of the phases
PhaseErrors ==
    LET q == SelectSeq(calls, LAMBDA c : c.error # None)
    IN  [i \in DOMAIN q |-> q[i].error]

\* C20: when run_testset has returned, executed + len(not_ran) is the number
\* of tests; the tests invoked are those of the first `executed` positions
\* and not_ran names those of the remaining positions, in list order, so no
\* test is both; the errors are at most 2 * executed + 1, in the order of the
\* invocations that raised them.
C20_Partition ==
    pc = "done" =>
      LET n == Len(test_name_list)
          r == ret[1]
          tests == SelectSeq(calls, LAMBDA c : c.fn[1] = "test")
      IN  /\ r.executed + Len(r.not_ran) = n
          /\ [i \in DOMAIN tests |-> tests[i].fn[2]]
               = SubSeq(test_name_list, 1, r.executed)
          /\ [i \in DOMAIN r.not_ran |-> r.not_ran[i][1]]
               = SubSeq(test_name_list, r.executed + 1, n)
          /\ \A i \in DOMAIN tests, j \in DOMAIN r.not_ran :
                tests[i].fn[2] # r.not_ran[j][1]
          /\ Len(r.errors) <= 2 * r.executed + 1
          /\ r.errors = PhaseErrors

\* A run has returned after a test and a test_teardown raised, with a test
\* left not ran and two errors.
C20_Witness ==
    /\ pc = "done" /\ ret[1].executed >= 1 /\ Len(ret[1].not_ran) >= 1
    /\ Len(ret[1].errors) >= 2
    /\ \E p \in DOMAIN calls : calls[p].fn[1] = "test" /\ calls[p].error # None

====
